---- MODULE Spec2Model ----
(***************************************************************************)
(* sysmon-cli: the monitor loop of src/main.rs (terminal set-up, warm-up   *)
(* ticks, refresh / draw / poll / sleep iterations, terminal restoration)  *)
(* and the per-frame derivations of the draw closure (disk lines, CPU      *)
(* bars, process rows).                                                    *)
(*                                                                         *)
(* Numbers.  CPU percentages are f32 in the source; they are modelled in   *)
(* fixed point (per-core usage in units of 1/UsageScale percent, process   *)
(* usage in tenths of a percent).  Disk sizes are u64 in the source; they  *)
(* are modelled in an unsigned word of U64Mod values, with the wrap-around *)
(* of the release build and the overflow panic of the debug build.         *)
(***************************************************************************)
EXTENDS Integers, Sequences, FiniteSets, TLC

VARIABLES
    pc,               \* position of main
    status,           \* "running", or how main ended: "ok", "err", "panic"
    alt,              \* terminal is on the alternate screen
    raw,              \* terminal is in raw input mode
    warm,             \* loop variable of `for _ in 0..3`
    tick_count,       \* App.tick_count
    processes_state,  \* App.processes_state (table selection)
    cpus,             \* App.system.cpus(): per-core usage
    processes,        \* App.system.processes(): <<[pid, cpu]>> in iteration order
    disks,            \* App.disks: <<[total, available]>>
    build,            \* "debug" (overflow checks) or "release" (wrapping)
    events,           \* terminal input queue, oldest first
    disk_lines,       \* last frame: disk pane
    cpu_lines,        \* last frame: CPU pane
    rows,             \* last frame: process table rows
    lastStep,         \* the last step main performed and its result
    frames,           \* number of frames drawn
    polls,            \* number of poll steps performed
    leaveCalls,       \* number of executions of LeaveAlternateScreen
    disableCalls,     \* number of calls of disable_raw_mode
    quitEvt,          \* the event that broke the loop, or NoEvent
    deadline          \* poll count by which the pending quit press is due

vars == <<pc, status, alt, raw, warm, tick_count, processes_state, cpus,
          processes, disks, build, events, disk_lines, cpu_lines, rows,
          lastStep, frames, polls, leaveCalls, disableCalls, quitEvt,
          deadline>>

appVars == <<tick_count, processes_state, cpus, processes, disks>>
frameVars == <<disk_lines, cpu_lines, rows>>
termVars == <<alt, raw>>

Min(a, b) == IF a < b THEN a ELSE b

BSeq(S, n) == UNION {[1..k -> S] : k \in 0..n}

(***************************************************************************)
(* Bounds.                                                                 *)
(***************************************************************************)
MaxTicks == 6        \* on_tick calls explored
MaxQueue == 2        \* pending input events
MaxSpace == 2        \* largest disk size explored
MaxDisks == 4        \* longest disk list explored
MaxProcs == 4        \* longest exhaustively explored process list
UsageScale == 4      \* per-core usage is explored in steps of 1/UsageScale %
MaxUsagePct == 110   \* largest per-core usage explored, in percent
U64Mod == 256        \* size of the unsigned word standing for u64

(***************************************************************************)
(* Program constants.                                                      *)
(***************************************************************************)
WarmupTicks == 3
TopN == 20
ShownDisks == 3
bar_width == 10

(***************************************************************************)
(* Disk pane (draw closure, `for disk in app.disks.iter().take(3)`).       *)
(* `total_space - available_space` is a u64 subtraction: with overflow     *)
(* checks (debug build) it panics when available > total, without them     *)
(* (release build) it wraps.                                               *)
(***************************************************************************)
Underflows(disk) == disk.available > disk.total

UsedSpace(disk) == (disk.total - disk.available + U64Mod) % U64Mod

\* usage_percent as the exact fraction num/den (0/1 when total_space is 0)
UsagePercent(disk) ==
    IF disk.total > 0
    THEN [num |-> UsedSpace(disk) * 100, den |-> disk.total]
    ELSE [num |-> 0, den |-> 1]

UsageColor(pct) ==
    IF pct.num > 90 * pct.den THEN "Red"
    ELSE IF pct.num > 75 * pct.den THEN "Yellow"
    ELSE "Green"

DiskLine(disk) ==
    [used_space    |-> UsedSpace(disk),
     total_space   |-> disk.total,
     usage_percent |-> UsagePercent(disk),
     usage_color   |-> UsageColor(UsagePercent(disk))]

TakeDisks(ds) == SubSeq(ds, 1, Min(ShownDisks, Len(ds)))

\* the panic of the overflow-checked subtraction aborts the whole frame
DiskPanics(ds, b) ==
    b = "debug" /\ \E i \in 1..Len(TakeDisks(ds)) : Underflows(TakeDisks(ds)[i])

\* the iteration of the disk loop that panics
PanicsAt(ds) ==
    CHOOSE i \in 1..Len(TakeDisks(ds)) :
        /\ Underflows(TakeDisks(ds)[i])
        /\ \A j \in 1..(i - 1) : ~Underflows(TakeDisks(ds)[j])

DiskLines(ds) == [i \in 1..Len(TakeDisks(ds)) |-> DiskLine(TakeDisks(ds)[i])]

(***************************************************************************)
(* CPU pane (draw closure, `for (i, cpu) in cpus.iter().enumerate()`).     *)
(* usage is in units of 1/UsageScale percent.                              *)
(***************************************************************************)
BarColor(usage) ==
    IF usage < 30 * UsageScale THEN "Green"
    ELSE IF usage < 70 * UsageScale THEN "Yellow"
    ELSE "Red"

\* f32::round of the non-negative fraction num/den: halves away from zero
Round_HalfDown(num, den) == (2 * num + den - 1) \div (2 * den)

Round(num, den) == (2 * num + den) \div (2 * den)

FilledBarCount(usage) == Round(usage * bar_width, 100 * UsageScale)

\* `bar_width - filled_bar_count` is a usize subtraction; when it underflows
\* the debug build panics at the subtraction and the release build panics in
\* " ".repeat() of the wrapped count (capacity overflow)
EmptyUnderflows(usage) == FilledBarCount(usage) > bar_width

CpuLine(usage) ==
    [filled_bar_count |-> FilledBarCount(usage),
     empty_bar_count  |-> bar_width - FilledBarCount(usage),
     bar_color        |-> BarColor(usage)]

CpuLines(cs) == [i \in 1..Len(cs) |-> CpuLine(cs[i])]

CpuPanics(cs) == \E i \in 1..Len(cs) : EmptyUnderflows(cs[i])

(***************************************************************************)
(* Process table (draw closure).  cpu is in tenths of a percent.           *)
(* sort_by is a stable sort; its comparator puts the larger raw usage      *)
(* first.                                                                  *)
(***************************************************************************)
SortKey_Capped(p) == Min(p.cpu, 1000)

SortKey(p) == p.cpu

\* insert p after every element that does not compare greater than it
RECURSIVE InsertSorted(_, _)
InsertSorted(p, s) ==
    IF s = <<>> THEN <<p>>
    ELSE IF SortKey(Head(s)) >= SortKey(p)
         THEN <<Head(s)>> \o InsertSorted(p, Tail(s))
         ELSE <<p>> \o s

RECURSIVE SortByCpu(_)
SortByCpu(ps) ==
    IF ps = <<>> THEN <<>>
    ELSE InsertSorted(ps[Len(ps)], SortByCpu(SubSeq(ps, 1, Len(ps) - 1)))

CpuUsageDisplay(p) == Min(p.cpu, 1000)

CpuColor(d) ==
    IF d > 800 THEN "Red"
    ELSE IF d > 500 THEN "Yellow"
    ELSE IF d > 200 THEN "Green"
    ELSE IF d > 50 THEN "Cyan"
    ELSE "Gray"

ProcessRow(p) ==
    [pid               |-> p.pid,
     cpu_usage_display |-> CpuUsageDisplay(p),
     cpu_color         |-> CpuColor(CpuUsageDisplay(p))]

TakeRows(ps) == SubSeq(ps, 1, Min(TopN, Len(ps)))

ProcessRows(ps) ==
    LET process_list == TakeRows(SortByCpu(ps))
    IN  [i \in 1..Len(process_list) |-> ProcessRow(process_list[i])]

(***************************************************************************)
(* Input events (crossterm Event).  A key event carries its code and its   *)
(* kind; the loop matches on the code only.                                *)
(***************************************************************************)
NoEvent == [type |-> "None"]

KeyCodes == {"q", "Q", "Esc", "x"}
KeyKinds == {"Press", "Release"}
KeyEvents == [type : {"Key"}, code : KeyCodes, kind : KeyKinds]
OtherEvents == {[type |-> "Resize"], [type |-> "Mouse"]}
Events == KeyEvents \cup OtherEvents

IsQuitCode_NoEsc(code) == code \in {"q", "Q"}

IsQuitCode_AnyKey(code) == code \in {"q", "Q", "Esc", "x"}

\* KeyCode::Char('q') | KeyCode::Char('Q') | KeyCode::Esc
IsQuitCode(code) == code \in {"q", "Q", "Esc"}

\* the arms of `match evt` that reach `break`
Breaks(evt) == evt.type = "Key" /\ IsQuitCode(evt.code)

\* a key press of q, Q or Escape
IsQuitPress(evt) ==
    evt.type = "Key" /\ evt.code \in {"q", "Q", "Esc"} /\ evt.kind = "Press"

\* position in the queue of the oldest quit key press, 0 when there is none
QuitPos(q) ==
    IF \E i \in 1..Len(q) : IsQuitPress(q[i])
    THEN CHOOSE i \in 1..Len(q) :
            IsQuitPress(q[i]) /\ \A j \in 1..(i - 1) : ~IsQuitPress(q[j])
    ELSE 0

DueAt(n, q) == IF QuitPos(q) > 0 THEN n + QuitPos(q) ELSE -1

(***************************************************************************)
(* Metrics the OS can report at a refresh, and disks it can list.          *)
(***************************************************************************)
Samples ==
    {[cpus |-> <<0, 45 * UsageScale>>,
      processes |-> <<[pid |-> 1, cpu |-> 50], [pid |-> 2, cpu |-> 1500]>>],
     [cpus |-> <<100 * UsageScale, 30 * UsageScale>>,
      processes |-> <<[pid |-> 1, cpu |-> 1200], [pid |-> 3, cpu |-> 1500]>>]}

DiskVals == [total : 0..MaxSpace, available : 0..MaxSpace]

MainDisks == {<<>>, <<[total |-> 2, available |-> 1]>>,
              <<[total |-> 0, available |-> 0]>>,
              <<[total |-> 0, available |-> 1]>>}

Step(op, res) == [op |-> op, res |-> res, at |-> 0]

(***************************************************************************)
(* main                                                                    *)
(***************************************************************************)
Init ==
    /\ pc = "enterAlt"
    /\ status = "running"
    /\ alt = FALSE
    /\ raw = FALSE
    /\ warm = 0
    /\ tick_count = 0
    /\ processes_state = "None"
    /\ cpus = <<>>
    /\ processes = <<>>
    /\ disks = <<>>
    /\ build \in {"debug", "release"}
    /\ events = <<>>
    /\ disk_lines = <<>>
    /\ cpu_lines = <<>>
    /\ rows = <<>>
    /\ lastStep = Step("start", "Ok")
    /\ frames = 0
    /\ polls = 0
    /\ leaveCalls = 0
    /\ disableCalls = 0
    /\ quitEvt = NoEvent
    /\ deadline = -1

Fail_Retry(op) ==
    /\ pc' = pc
    /\ status' = status
    /\ lastStep' = Step(op, "Err")

\* `?` on an Err: main returns the error
Fail(op) ==
    /\ pc' = "done"
    /\ status' = "err"
    /\ lastStep' = Step(op, "Err")

\* the terminal delivers an input event
Arrive ==
    /\ status = "running"
    /\ Len(events) < MaxQueue
    /\ \E e \in Events :
          /\ events' = Append(events, e)
          /\ deadline' = IF IsQuitPress(e) /\ QuitPos(events) = 0
                         THEN polls + Len(events) + 1
                         ELSE deadline
    /\ UNCHANGED <<pc, status, alt, raw, warm, appVars, build, frameVars,
                   lastStep, frames, polls, leaveCalls, disableCalls, quitEvt>>

\* stdout().execute(EnterAlternateScreen)?
EnterAlt ==
    /\ pc = "enterAlt"
    /\ \/ /\ alt' = TRUE
          /\ pc' = "enableRaw"
          /\ lastStep' = Step("enterAlt", "Ok")
          /\ UNCHANGED status
       \/ /\ Fail("enterAlt")
          /\ UNCHANGED alt
    /\ UNCHANGED <<raw, warm, appVars, build, events, frameVars, frames, polls,
                   leaveCalls, disableCalls, quitEvt, deadline>>

\* enable_raw_mode()?
EnableRaw ==
    /\ pc = "enableRaw"
    /\ \/ /\ raw' = TRUE
          /\ pc' = "newTerminal"
          /\ lastStep' = Step("enableRaw", "Ok")
          /\ UNCHANGED status
       \/ /\ Fail("enableRaw")
          /\ UNCHANGED raw
    /\ UNCHANGED <<alt, warm, appVars, build, events, frameVars, frames, polls,
                   leaveCalls, disableCalls, quitEvt, deadline>>

\* Terminal::new(CrosstermBackend::new(stdout()))?
NewTerminal ==
    /\ pc = "newTerminal"
    /\ \/ /\ pc' = "appNew"
          /\ lastStep' = Step("newTerminal", "Ok")
          /\ UNCHANGED status
       \/ Fail("newTerminal")
    /\ UNCHANGED <<termVars, warm, appVars, build, events, frameVars, frames,
                   polls, leaveCalls, disableCalls, quitEvt, deadline>>

\* App::new()
AppNew ==
    /\ pc = "appNew"
    /\ tick_count' = 0
    /\ processes_state' = "None"
    /\ \E s \in Samples : cpus' = s.cpus /\ processes' = s.processes
    /\ disks' \in MainDisks
    /\ warm' = 0
    /\ pc' = "warmTick"
    /\ lastStep' = Step("appNew", "Ok")
    /\ UNCHANGED <<status, termVars, build, events, frameVars, frames, polls,
                   leaveCalls, disableCalls, quitEvt, deadline>>

\* App::on_tick
OnTick ==
    /\ tick_count' = tick_count + 1
    /\ \E s \in Samples : cpus' = s.cpus /\ processes' = s.processes
    /\ UNCHANGED <<processes_state, disks>>

\* body of `for _ in 0..3`: app.on_tick()
WarmTick ==
    /\ pc = "warmTick"
    /\ OnTick
    /\ pc' = "warmSleep"
    /\ lastStep' = Step("warmTick", "Ok")
    /\ UNCHANGED <<status, termVars, warm, build, events, frameVars, frames,
                   polls, leaveCalls, disableCalls, quitEvt, deadline>>

WarmSleep_OneShort ==
    /\ pc = "warmSleep"
    /\ warm' = warm + 1
    /\ pc' = IF warm + 1 < WarmupTicks - 1 THEN "warmTick" ELSE "tick"
    /\ lastStep' = Step("warmSleep", "Ok")
    /\ UNCHANGED <<status, termVars, appVars, build, events, frameVars, frames,
                   polls, leaveCalls, disableCalls, quitEvt, deadline>>

\* body of `for _ in 0..3`: sleep(500ms), then the loop test
WarmSleep ==
    /\ pc = "warmSleep"
    /\ warm' = warm + 1
    /\ pc' = IF warm + 1 < WarmupTicks THEN "warmTick" ELSE "tick"
    /\ lastStep' = Step("warmSleep", "Ok")
    /\ UNCHANGED <<status, termVars, appVars, build, events, frameVars, frames,
                   polls, leaveCalls, disableCalls, quitEvt, deadline>>

\* loop: app.on_tick()
Tick ==
    /\ pc = "tick"
    /\ tick_count < MaxTicks
    /\ OnTick
    /\ pc' = "draw"
    /\ lastStep' = Step("tick", "Ok")
    /\ UNCHANGED <<status, termVars, warm, build, events, frameVars, frames,
                   polls, leaveCalls, disableCalls, quitEvt, deadline>>

\* loop: terminal.draw(|frame| { ... })?
Draw ==
    /\ pc = "draw"
    /\ IF DiskPanics(disks, build)
       THEN /\ pc' = "done"
            /\ status' = "panic"
            /\ lastStep' = [op |-> "draw", res |-> "DiskPanic", at |-> PanicsAt(disks)]
            /\ UNCHANGED <<frameVars, frames>>
       ELSE IF CpuPanics(cpus)
       THEN /\ pc' = "done"
            /\ status' = "panic"
            /\ lastStep' = Step("draw", "CpuPanic")
            /\ UNCHANGED <<frameVars, frames>>
       ELSE \/ /\ disk_lines' = DiskLines(disks)
               /\ cpu_lines' = CpuLines(cpus)
               /\ rows' = ProcessRows(processes)
               /\ frames' = frames + 1
               /\ pc' = "poll"
               /\ lastStep' = Step("draw", "Ok")
               /\ UNCHANGED status
            \/ /\ Fail("draw")
               /\ UNCHANGED <<frameVars, frames>>
    /\ UNCHANGED <<termVars, warm, appVars, build, events, polls, leaveCalls,
                   disableCalls, quitEvt, deadline>>

AfterRead_Drain(q) == <<>>

\* event::read() takes the oldest pending event
AfterRead(q) == Tail(q)

InputErr_Propagate(res) ==
    /\ pc' = "done"
    /\ status' = "err"
    /\ lastStep' = Step("poll", res)
    /\ UNCHANGED quitEvt

\* an Err of poll or read matches neither `if let Ok(..)`: on to the sleep
InputErr(res) ==
    /\ pc' = "sleep"
    /\ lastStep' = Step("poll", res)
    /\ UNCHANGED <<status, quitEvt>>

\* loop: if let Ok(true) = event::poll(16ms) { if let Ok(evt) = event::read() { match evt ... } }
PollInput ==
    /\ pc = "poll"
    /\ polls' = polls + 1
    /\ \/ \* poll returns Err
          /\ events' = events
          /\ InputErr("PollErr")
          /\ deadline' = DueAt(polls', events')
       \/ \* poll returns Ok(false): nothing arrived within the timeout
          /\ events = <<>>
          /\ events' = events
          /\ pc' = "sleep"
          /\ lastStep' = Step("poll", "NoEvent")
          /\ UNCHANGED <<status, quitEvt, deadline>>
       \/ \* poll returns Ok(true), read returns Err
          /\ events # <<>>
          /\ events' \in {events, AfterRead(events)}
          /\ InputErr("ReadErr")
          /\ deadline' = DueAt(polls', events')
       \/ \* poll returns Ok(true), read returns Ok(evt)
          /\ events # <<>>
          /\ events' = AfterRead(events)
          /\ lastStep' = Step("poll", "Event")
          /\ IF Breaks(Head(events))
             THEN pc' = "leaveAlt" /\ quitEvt' = Head(events)
             ELSE pc' = "sleep" /\ UNCHANGED quitEvt
          /\ UNCHANGED <<status, deadline>>
    /\ UNCHANGED <<termVars, warm, appVars, build, frameVars, frames,
                   leaveCalls, disableCalls>>

\* loop: sleep(200ms), then the next iteration
Sleep ==
    /\ pc = "sleep"
    /\ pc' = "tick"
    /\ lastStep' = Step("sleep", "Ok")
    /\ UNCHANGED <<status, termVars, warm, appVars, build, events, frameVars,
                   frames, polls, leaveCalls, disableCalls, quitEvt, deadline>>

\* stdout().execute(LeaveAlternateScreen)?
LeaveAlt ==
    /\ pc = "leaveAlt"
    /\ leaveCalls' = leaveCalls + 1
    /\ \/ /\ alt' = FALSE
          /\ pc' = "disableRaw"
          /\ lastStep' = Step("leaveAlt", "Ok")
          /\ UNCHANGED status
       \/ /\ Fail("leaveAlt")
          /\ UNCHANGED alt
    /\ UNCHANGED <<raw, warm, appVars, build, events, frameVars, frames, polls,
                   disableCalls, quitEvt, deadline>>

\* disable_raw_mode()?; Ok(())
DisableRaw ==
    /\ pc = "disableRaw"
    /\ disableCalls' = disableCalls + 1
    /\ \/ /\ raw' = FALSE
          /\ pc' = "done"
          /\ status' = "ok"
          /\ lastStep' = Step("disableRaw", "Ok")
       \/ /\ Fail("disableRaw")
          /\ UNCHANGED raw
    /\ UNCHANGED <<alt, warm, appVars, build, events, frameVars, frames, polls,
                   leaveCalls, quitEvt, deadline>>

Next ==
    \/ Arrive
    \/ EnterAlt
    \/ EnableRaw
    \/ NewTerminal
    \/ AppNew
    \/ WarmTick
    \/ WarmSleep
    \/ Tick
    \/ Draw
    \/ PollInput
    \/ Sleep
    \/ LeaveAlt
    \/ DisableRaw

Spec == Init /\ [][Next]_vars

(***************************************************************************)
(* One frame: the draw step of the first iteration applied to the metrics  *)
(* of a bounded set of snapshots.                                          *)
(***************************************************************************)
DiskInputs == BSeq(DiskVals, MaxDisks)

CpuInputs == {<<u>> : u \in 0..(MaxUsagePct * UsageScale)}

CpuSeq == <<1, 50, 500, 999, 1000, 1200, 1500>>

CpuVals == {CpuSeq[i] : i \in 1..Len(CpuSeq)}

ShortProcs ==
    UNION {{[i \in 1..k |-> [pid |-> i, cpu |-> f[i]]] : f \in [1..k -> CpuVals]} :
           k \in 0..MaxProcs}

LongProc(n, a, b) ==
    [i \in 1..n |-> [pid |-> i, cpu |-> CpuSeq[((a * i + b) % Len(CpuSeq)) + 1]]]

LongProcs ==
    {LongProc(n, a, b) : n \in (TopN - 1)..(TopN + 2),
                         a \in 0..(Len(CpuSeq) - 1), b \in 0..(Len(CpuSeq) - 1)}

ProcInputs == ShortProcs \cup LongProcs

InitDraw ==
    /\ pc = "draw"
    /\ status = "running"
    /\ alt = TRUE
    /\ raw = TRUE
    /\ warm = WarmupTicks
    /\ tick_count = WarmupTicks + 1
    /\ processes_state = "None"
    /\ \/ disks \in DiskInputs /\ cpus = <<>> /\ processes = <<>>
       \/ disks = <<>> /\ cpus \in CpuInputs /\ processes = <<>>
       \/ disks = <<>> /\ cpus = <<>> /\ processes \in ProcInputs
    /\ build \in {"debug", "release"}
    /\ events = <<>>
    /\ disk_lines = <<>>
    /\ cpu_lines = <<>>
    /\ rows = <<>>
    /\ lastStep = Step("tick", "Ok")
    /\ frames = 0
    /\ polls = 0
    /\ leaveCalls = 0
    /\ disableCalls = 0
    /\ quitEvt = NoEvent
    /\ deadline = -1

NextDraw == Draw

SpecDraw == InitDraw /\ [][NextDraw]_vars

(***************************************************************************)
(* Properties of the monitor loop.                                         *)
(***************************************************************************)
\* a step of main (every step of main records itself in lastStep)
MainStep == lastStep' # lastStep

\* the poll step of an iteration
PollStep == pc = "poll" /\ pc' # "poll"

\* the poll step reads an event
ReadsEvent == PollStep /\ lastStep'.res = "Event"

Returned == status # "running"

InLoop == pc \in {"tick", "draw", "poll", "sleep"}

QuitCodes == {"q", "Q", "Esc"}

\* after the break nothing of the loop runs any more
NothingAfterBreak ==
    quitEvt # NoEvent =>
        /\ pc' \notin {"tick", "draw", "poll", "sleep"}
        /\ MainStep => lastStep'.op \in {"leaveAlt", "disableRaw"}
        /\ tick_count' = tick_count /\ frames' = frames /\ polls' = polls

\* a quit key press read by the poll step breaks the loop in that step
BreaksOnQuitPress ==
    (ReadsEvent /\ IsQuitPress(Head(events))) =>
        pc' = "leaveAlt" /\ quitEvt' = Head(events) /\ status' = "running"

C1_OriginalEnd ==
    (IsQuitPress(quitEvt) /\ Returned) =>
        /\ status = "ok"
        /\ leaveCalls = 1 /\ disableCalls = 1
        /\ ~alt /\ ~raw

\* C1 as stated: a quit key press read by the poll step ends the loop in that
\* iteration, the terminal is restored (alternate screen left, then raw mode
\* disabled) exactly once, and main ends with success.
C1_Original ==
    /\ []C1_OriginalEnd
    /\ [][BreaksOnQuitPress /\ NothingAfterBreak]_vars

C1_End ==
    /\ leaveCalls <= 1 /\ disableCalls <= 1
    /\ disableCalls = 1 => (leaveCalls = 1 /\ ~alt)
    /\ (quitEvt # NoEvent /\ Returned) =>
          /\ leaveCalls = 1
          /\ status = "ok" <=> (disableCalls = 1 /\ ~alt /\ ~raw)
          /\ status # "ok" => status = "err"

\* C1 (amended): a quit key press read by the poll step ends the loop in that
\* iteration (no further on_tick, draw, poll or sleep); leaving the alternate
\* screen is then attempted exactly once, disabling raw mode at most once and
\* only after the alternate screen was left; main ends with success exactly
\* when both restoration steps succeed, and with an error otherwise.
C1_Thm ==
    /\ []C1_End
    /\ [][BreaksOnQuitPress /\ NothingAfterBreak]_vars

C1_Witness ==
    /\ status = "ok" /\ IsQuitPress(quitEvt) /\ quitEvt.code = "Esc"
    /\ leaveCalls = 1 /\ disableCalls = 1

\* C2: raw mode and the alternate screen are entered before the loop, and
\* whenever main has returned the terminal is in neither mode.
C2_Claim ==
    /\ InLoop => (alt /\ raw)
    /\ Returned => (~alt /\ ~raw)

AppUntouched == UNCHANGED <<appVars, frameVars, termVars, status>>

C3_OriginalStep ==
    (ReadsEvent /\ ~IsQuitPress(Head(events))) =>
        pc' = "sleep" /\ quitEvt' = NoEvent /\ AppUntouched

\* C3 as stated: every event read by the poll step other than a key press of
\* q, Q or Escape is discarded and the iteration goes on to the sleep.
C3_Original == [][C3_OriginalStep]_vars

C3_Step ==
    /\ (ReadsEvent /\ ~(Head(events).type = "Key" /\ Head(events).code \in QuitCodes)) =>
          pc' = "sleep" /\ quitEvt' = NoEvent /\ AppUntouched
    /\ (pc = "sleep" /\ MainStep) =>
          /\ lastStep' = Step("sleep", "Ok") /\ pc' = "tick"
          /\ AppUntouched /\ events' = events

\* C3 (amended): every event read by the poll step other than a key event (of
\* any kind: press or release) with code q, Q or Escape is discarded: the loop
\* stays in Running, the application state is unchanged, and the iteration
\* goes on to the 200ms sleep and the next refresh as when no event arrived.
C3_Thm == [][C3_Step]_vars

C3_Witness ==
    /\ pc = "sleep" /\ lastStep = Step("poll", "Event")
    /\ quitEvt = NoEvent /\ status = "running"

FatalOps == {"enterAlt", "enableRaw", "newTerminal", "draw", "leaveAlt", "disableRaw"}

C4_Step ==
    /\ status = "running"
    /\ (MainStep /\ lastStep'.op \in FatalOps /\ lastStep'.res = "Err") =>
          pc' = "done" /\ status' = "err"

C4_End ==
    /\ Returned <=> pc = "done"
    /\ status = "err" => (lastStep.op \in FatalOps /\ lastStep.res = "Err")
    /\ status = "ok" =>
          /\ quitEvt # NoEvent
          /\ lastStep = Step("disableRaw", "Ok")
          /\ leaveCalls = 1 /\ disableCalls = 1 /\ ~alt /\ ~raw

\* C4: an Err of entering/leaving the alternate screen, enabling/disabling raw
\* mode, creating the terminal or drawing a frame ends main at once with an
\* error; nothing runs after main has returned; main ends with success only
\* after a quit whose restoration succeeded.
C4_Thm == []C4_End /\ [][C4_Step]_vars

C4_Witness ==
    /\ status = "err" /\ lastStep = Step("draw", "Err")
    /\ frames >= 1 /\ alt /\ raw

C5_Step ==
    /\ (PollStep /\ lastStep'.res \in {"PollErr", "ReadErr", "NoEvent"}) =>
          /\ pc' = "sleep" /\ quitEvt' = quitEvt /\ AppUntouched
    /\ (pc = "sleep" /\ MainStep) => (lastStep' = Step("sleep", "Ok") /\ pc' = "tick")

\* C5: an Err of poll, or of read after poll reported an event, leaves the
\* loop in Running with nothing changed and goes on to the sleep and the next
\* iteration, exactly as a poll that reports no event; main never ends
\* because of an input error.
C5_Thm ==
    /\ [](Returned => lastStep.op # "poll")
    /\ [][C5_Step]_vars

C5_Witness ==
    /\ pc = "sleep" /\ lastStep = Step("poll", "ReadErr") /\ status = "running"
    /\ polls >= 2

C6_Step ==
    MainStep =>
        /\ lastStep'.op = "enableRaw" => lastStep = Step("enterAlt", "Ok")
        /\ lastStep'.op = "warmTick" => (alt /\ raw /\ frames = 0)
        /\ lastStep'.op = "tick" => lastStep.op \in {"warmSleep", "sleep"}
        /\ lastStep'.op = "draw" => lastStep = Step("tick", "Ok")
        /\ lastStep'.op = "poll" => lastStep = Step("draw", "Ok")
        /\ lastStep'.op = "sleep" => lastStep.op = "poll"
        /\ lastStep = Step("tick", "Ok") => lastStep'.op = "draw"
        /\ lastStep = Step("draw", "Ok") => lastStep'.op = "poll"
        /\ (lastStep.op = "poll" /\ pc = "sleep") => lastStep'.op = "sleep"
        /\ (frames = 0 /\ lastStep'.op = "draw") =>
              (tick_count = 3 + 1 /\ lastStep = Step("tick", "Ok") /\ alt /\ raw)

C6_Inv ==
    /\ polls <= frames /\ frames <= polls + 1
    /\ frames > 0 => tick_count \in {3 + frames, 3 + frames + 1}
    /\ pc \in {"poll", "sleep"} => tick_count = 3 + frames
    /\ InLoop => (alt /\ raw)

\* C6: the alternate screen and raw mode are entered first, exactly 3 warm-up
\* refreshes precede the first iteration, and every iteration runs refresh,
\* draw, one poll, sleep in that order.
C6_Thm == []C6_Inv /\ [][C6_Step]_vars

C6_Witness == frames = 2 /\ polls = 2 /\ lastStep = Step("sleep", "Ok")

C10_Inv ==
    /\ (status = "running" /\ quitEvt = NoEvent /\ QuitPos(events) > 0) =>
          (deadline >= 0 /\ polls + QuitPos(events) <= deadline)
    /\ (status = "running" /\ quitEvt = NoEvent /\ deadline >= 0) =>
          QuitPos(events) > 0
    /\ (quitEvt # NoEvent /\ deadline >= 0) => polls <= deadline

C10_Step ==
    /\ \/ events' = events
       \/ PollStep /\ events # <<>> /\ events' = Tail(events)
       \/ ~MainStep /\ \E e \in Events : events' = Append(events, e)
    /\ quitEvt' # quitEvt =>
          /\ PollStep /\ lastStep = Step("draw", "Ok")
          /\ events # <<>> /\ quitEvt' = Head(events)

\* C10: each iteration takes at most one event off the input queue, the
\* oldest one; a quit key press with k events queued before it breaks the
\* loop within k+1 further poll steps as long as no poll or read fails; a
\* quit key press that arrives during the sleep stays queued and is acted on
\* in a poll step, which follows the next refresh and draw.
C10_Thm == []C10_Inv /\ [][C10_Step]_vars

C10_Witness ==
    /\ IsQuitPress(quitEvt) /\ deadline = polls /\ polls >= 2
    /\ lastStep = Step("poll", "Event")

(***************************************************************************)
(* Properties of one drawn frame.                                          *)
(***************************************************************************)
Drawn == lastStep = Step("draw", "Ok")

DrawRan == lastStep.op = "draw" /\ lastStep.res # "Err"

\* raw usage of the process shown in a row
RawOf(pid) == (CHOOSE i \in 1..Len(processes) : processes[i].pid = pid)

ShownPids == {rows[i].pid : i \in 1..Len(rows)}

C7_Inv ==
    Drawn =>
        /\ Len(rows) = Min(20, Len(processes))
        /\ \A i \in 1..Len(rows) :
              /\ \E k \in 1..Len(processes) : processes[k].pid = rows[i].pid
              /\ rows[i].cpu_usage_display = Min(processes[RawOf(rows[i].pid)].cpu, 1000)
              /\ rows[i].cpu_usage_display <= 1000
        /\ \A i, j \in 1..Len(rows) :
              i < j => /\ rows[i].pid # rows[j].pid
                       /\ processes[RawOf(rows[i].pid)].cpu >=
                             processes[RawOf(rows[j].pid)].cpu
        /\ \A k \in 1..Len(processes) :
              processes[k].pid \notin ShownPids =>
                  \A i \in 1..Len(rows) :
                      processes[RawOf(rows[i].pid)].cpu >= processes[k].cpu
        /\ [i \in 1..Len(processes) |-> processes[i].cpu] = <<50, 999, 500, 1>> =>
              [i \in 1..Len(rows) |-> rows[i].cpu_usage_display] = <<999, 500, 50, 1>>
        /\ [i \in 1..Len(processes) |-> processes[i].cpu] = <<1200, 1500>> =>
              /\ [i \in 1..Len(rows) |-> rows[i].pid] = <<processes[2].pid, processes[1].pid>>
              /\ [i \in 1..Len(rows) |-> rows[i].cpu_usage_display] = <<1000, 1000>>

\* C7: the process table shows the min(20, n) processes of largest raw CPU
\* usage, in descending order of raw usage, each with min(raw, 100) as its
\* displayed CPU% (CPU in tenths of a percent).
C7_Thm == C7_Inv

C7_Witness ==
    /\ Drawn /\ Len(processes) > 20 /\ Len(rows) = 20
    /\ \E i \in 1..19 :
          /\ rows[i].cpu_usage_display = 1000 /\ rows[i + 1].cpu_usage_display = 1000
          /\ processes[RawOf(rows[i].pid)].cpu > processes[RawOf(rows[i + 1].pid)].cpu
    /\ rows[20].cpu_usage_display < 1000

\* C8: for every disk among the first 3 whose total space is 0, whatever its
\* available space, the disk line is computed without an arithmetic fault
\* (used = total - available does not underflow) and shows 0% in green.
C8_Claim ==
    DrawRan =>
        \A i \in 1..Min(3, Len(disks)) :
            disks[i].total = 0 =>
                /\ ~(lastStep.res = "DiskPanic" /\ lastStep.at = i)
                /\ lastStep.res = "Ok" =>
                      /\ disk_lines[i].used_space = disks[i].total - disks[i].available
                      /\ disk_lines[i].usage_percent.num = 0
                      /\ disk_lines[i].usage_color = "Green"

C9_Inv ==
    DrawRan =>
        ((\A i \in 1..Len(cpus) : cpus[i] >= 0 /\ cpus[i] <= 100 * UsageScale) =>
            /\ lastStep.res # "CpuPanic"
            /\ lastStep.res = "Ok" => Len(cpu_lines) = Len(cpus)
            /\ lastStep.res = "Ok" => \A i \in 1..Len(cpus) :
                  LET filled == cpu_lines[i].filled_bar_count
                      empty  == cpu_lines[i].empty_bar_count
                      color  == cpu_lines[i].bar_color
                      usage  == cpus[i]
                  IN  /\ filled \in 0..10 /\ empty \in 0..10
                      /\ filled + empty = 10
                      \* filled - 1/2 <= usage/100*10 < filled + 1/2
                      /\ (2 * filled - 1) * 100 * UsageScale <= 2 * 10 * usage
                      /\ 2 * 10 * usage < (2 * filled + 1) * 100 * UsageScale
                      /\ usage = 45 * UsageScale => (filled = 5 /\ empty = 5)
                      /\ color = "Green" <=> usage < 30 * UsageScale
                      /\ color = "Yellow" <=>
                            (usage >= 30 * UsageScale /\ usage < 70 * UsageScale)
                      /\ color = "Red" <=> usage >= 70 * UsageScale)

\* C9: for every per-core usage in [0, 100] the bar has filled + empty = 10
\* cells with filled = usage/100*10 rounded to the nearest integer, halves
\* away from zero (45.0 gives 5 and 5); the colour is normal below 30,
\* warning from 30 to below 70, critical from 70.
C9_Thm == C9_Inv

C9_Witness ==
    /\ Drawn /\ cpus = <<45 * UsageScale>>
    /\ cpu_lines[1].filled_bar_count = 5 /\ cpu_lines[1].empty_bar_count = 5
    /\ cpu_lines[1].bar_color = "Yellow"

====
